---- MODULE Spec2Model ----
(***************************************************************************)
(* A model of src/execve/elf.c of PRoot: open_elf, find_program_header,    *)
(* is_host_elf, add_xpaths and read_ldso_rpaths.                           *)
(*                                                                         *)
(* One C function runs at a time.  pc is the position inside the running   *)
(* function, stack holds the positions to return to, retval the value the  *)
(* last returning function handed to its caller.  Every system call is one *)
(* step whose outcome the operating system chooses.                        *)
(*                                                                         *)
(* Machine integers are scaled: uint64_t is WordBits wide, off_t is the    *)
(* signed type of the same width, int is IntBits wide, the 32-bit ELF      *)
(* fields are Word32Bits wide, and add_xpaths' 1024-byte chunk is          *)
(* ChunkSize bytes; its loop is followed for MaxChunks chunks.  The file is seen through three views, each addressed  *)
(* from its own base: the program header table at e_phoff, the dynamic     *)
(* entries at the dynamic segment's p_offset, and the bytes add_xpaths     *)
(* reads, indexed by absolute file offset.                                 *)
(***************************************************************************)
EXTENDS Integers, Sequences, FiniteSets, TLC

(* ------------------------------ bounds -------------------------------- *)

WordBits == 8

IntBits == 7

Word32Bits == 7

ChunkSize == 2

MaxCalls == 3

MaxPh == 2

MaxDyn == 3

MaxBytes == 3

MaxChunks == 3

(* -------------------------- machine integers -------------------------- *)

RECURSIVE Pow2(_)
Pow2(n) == IF n = 0 THEN 1 ELSE 2 * Pow2(n - 1)

WordMod == Pow2(WordBits)

UINT64_MAX == WordMod - 1

\* (uint64_t) -1, the "wherever" address of find_program_header and the
\* "no string table" mark of read_ldso_rpaths.
WILDCARD == UINT64_MAX

\* Largest value of a 32-bit ELF field.
UINT32_MAX == Pow2(Word32Bits) - 1

\* Conversion of an integer to uint64_t.
ToWord(x) == x % WordMod

\* Conversion of a uint64_t to off_t (two's complement).
ToOff(x) == IF ToWord(x) >= WordMod \div 2 THEN ToWord(x) - WordMod ELSE ToWord(x)

\* Conversion of an off_t to int: the low IntBits bits, two's complement.
ToInt(x) ==
  LET m == Pow2(IntBits)
      r == x % m
  IN IF r >= m \div 2 THEN r - m ELSE r

(* ------------------------------ errno.h ------------------------------- *)

EIO == 5

ENOEXEC == 8

ENOMEM == 12

EACCES == 13

EINVAL == 22

ENOTSUP == 95

(* ------------------------------- ELF ---------------------------------- *)

ELFCLASSNONE == 0

ELFCLASS32 == 1

ELFCLASS64 == 2

\* sizeof(ElfHeader): the union of the 32-bit and the 64-bit header.
SizeofElfHeader == 64

ELFMAG == <<127, 69, 76, 70>>

IS_CLASS32(header) == header.class = ELFCLASS32

IS_CLASS64(header) == header.class = ELFCLASS64

\* HOST_ELF_MACHINE of an x86_64 host: EM_X86_64, EM_386, EM_486 and the
\* terminating zero.
HOST_ELF_MACHINE == <<62, 3, 6, 0>>

\* A char pointer is the buffer it points to, its terminating NUL included;
\* the NULL pointer points to none.
NULL == <<>>

(* ------------------------------ state --------------------------------- *)

VARIABLES
  pc,            \* position in the running function, "idle" between calls
  stack,         \* return positions of the callers
  retval,        \* value returned by the last returning function
  errno,         \* the C library's errno
  fds,           \* descriptors open in the process
  owned,         \* descriptors handed to the top-level caller, not yet closed
  fpos,          \* file offset of the descriptor being read
  ncalls,        \* top-level calls made so far
  last_call,     \* the function the top-level caller called last
  env,           \* whether PROOT_FORCE_FOREIGN_BINARY is in the environment
  force_foreign, \* is_host_elf: static int force_foreign
  qemu,          \* is_host_elf: tracee->qemu != NULL
  file,          \* open_elf: the file t_path names
  elf_header,    \* open_elf: *elf_header
  fd,            \* open_elf: fd
  status,        \* the running function's status
  host_fd,       \* is_host_elf: fd
  host_result,   \* is_host_elf: the returned bool
  image,         \* the ELF image behind the descriptor of the parsers
  type,          \* find_program_header: type
  address,       \* find_program_header: address
  i,             \* find_program_header: i
  program_header,\* find_program_header: *program_header
  offsetof_dynamic_segment,
  sizeof_dynamic_segment,
  sizeof_dynamic_entry,
  strtab_address,
  strtab_offset,
  scan,          \* read_ldso_rpaths: which FOREACH_DYNAMIC_ENTRY loop runs
  di,            \* read_ldso_rpaths: i
  dynamic_entry, \* FOREACH_DYNAMIC_ENTRY: dynamic_entry
  value,         \* FOREACH_DYNAMIC_ENTRY: value
  rpaths,        \* read_ldso_rpaths: *rpaths
  runpaths,      \* read_ldso_rpaths: *runpaths
  passed,        \* *rpaths and *runpaths as the caller passed them
  offset,        \* add_xpaths: offset
  length,        \* add_xpaths: length
  size,          \* add_xpaths: size
  paths          \* add_xpaths: the buffer paths points to

sysVars == <<errno, fds, owned, fpos>>

callVars == <<ncalls, last_call>>

hostVars == <<env, force_foreign, qemu, host_fd, host_result>>

openVars == <<file, elf_header, fd>>

findVars == <<type, address, i, program_header>>

rlrVars == <<offsetof_dynamic_segment, sizeof_dynamic_segment, sizeof_dynamic_entry,
             strtab_address, strtab_offset, scan, di, dynamic_entry, value>>

accVars == <<rpaths, runpaths, passed>>

axVars == <<offset, length, size, paths>>

vars == <<pc, stack, retval, status, image, sysVars, callVars, hostVars, openVars,
          findVars, rlrVars, accVars, axVars>>

(* --------------------------- call and return -------------------------- *)

\* A function returns v: control goes back to the caller's position.
Return(v) ==
  /\ retval' = v
  /\ pc' = Head(stack)
  /\ stack' = Tail(stack)

(* ------------------------------ open_elf ------------------------------ *)

\* The files a path may name: not readable, shorter than a header, or holding
\* a header with some identification bytes, class and machine.
Idents == {ELFMAG, <<0, 69, 76, 70>>, <<127, 0, 76, 70>>, <<127, 69, 0, 70>>, <<127, 69, 76, 0>>}

Machines == {0, 3, 40}

NoHeader == [ident |-> <<0, 0, 0, 0>>, class |-> ELFCLASSNONE, machine |-> 0]

Files ==
  {[readable |-> FALSE, len |-> 0, header |-> NoHeader]}
  \cup {[readable |-> TRUE, len |-> n, header |-> NoHeader] : n \in {0, SizeofElfHeader - 1}}
  \cup {[readable |-> TRUE, len |-> SizeofElfHeader,
         header |-> [ident |-> id, class |-> ELFCLASS64, machine |-> 3]] : id \in Idents}
  \cup {[readable |-> TRUE, len |-> SizeofElfHeader,
         header |-> [ident |-> ELFMAG, class |-> c, machine |-> m]] :
          c \in {ELFCLASSNONE, ELFCLASS32, ELFCLASS64}, m \in Machines}

\* The lowest descriptor not in use, as open(2) allocates it.
LowestFree(used) == CHOOSE n \in 3..(3 + Cardinality(used)) :
                      n \notin used /\ \A k \in 3..(n - 1) : k \in used

\* The "Check if it is an ELF file" test of open_elf, on the read's result.
NotElf(st, header) ==
  \/ st < SizeofElfHeader
  \/ header.ident[1] # 127
  \/ header.ident[2] # 69
  \/ header.ident[3] # 76
  \/ header.ident[4] # 70

UnknownClass(header) == ~IS_CLASS32(header) /\ ~IS_CLASS64(header)

\* The descriptors left open by the "end:" block of open_elf.
CloseOnError_Leak(open, d, st) == open

CloseOnError(open, d, st) == IF st < 0 THEN open \ {d} ELSE open

\* fd = open(t_path, O_RDONLY); if (fd < 0) return -errno;
OpenElfOpen ==
  /\ pc = "open_elf"
  /\ \/ /\ file.readable
        /\ fd' = LowestFree(fds)
        /\ fds' = fds \cup {fd'}
        /\ fpos' = 0
        /\ pc' = "oe_read"
        /\ UNCHANGED <<stack, retval, errno>>
     \/ /\ ~file.readable
        /\ errno' = EACCES
        /\ fd' = -1
        /\ Return(-errno')
        /\ UNCHANGED <<fds, fpos>>
  /\ UNCHANGED <<status, image, owned, callVars, hostVars, file, elf_header,
                 findVars, rlrVars, accVars, axVars>>

\* status = read(fd, elf_header, sizeof(ElfHeader)) and the checks up to "end:".
OpenElfRead ==
  /\ pc = "oe_read"
  /\ \/ \* the read fails
        /\ errno' = EIO
        /\ status' = -errno'
        /\ UNCHANGED <<elf_header, fpos>>
     \/ \* the read returns what the file holds
        LET n == IF file.len < SizeofElfHeader THEN file.len ELSE SizeofElfHeader
            h == IF n = SizeofElfHeader THEN file.header ELSE elf_header
        IN /\ elf_header' = h
           /\ fpos' = n
           /\ status' = IF NotElf(n, h) THEN -ENOEXEC
                        ELSE IF UnknownClass(h) THEN -ENOEXEC
                        ELSE 0
           /\ UNCHANGED errno
  /\ pc' = "oe_end"
  /\ UNCHANGED <<stack, retval, image, fds, owned, callVars, hostVars, file, fd,
                 findVars, rlrVars, accVars, axVars>>

\* end: if (status < 0) { close(fd); return status; } return fd;
OpenElfEnd ==
  /\ pc = "oe_end"
  /\ fds' = CloseOnError(fds, fd, status)
  /\ Return(IF status < 0 THEN status ELSE fd)
  /\ UNCHANGED <<status, image, errno, owned, fpos, callVars, hostVars, openVars,
                 findVars, rlrVars, accVars, axVars>>

(* ----------------------------- is_host_elf ---------------------------- *)

\* if (force_foreign < 0) force_foreign = (getenv(...) != NULL);
MemoForceForeign_Reread(ff, e) == IF e THEN 1 ELSE 0

MemoForceForeign(ff, e) == IF ff < 0 THEN (IF e THEN 1 ELSE 0) ELSE ff

\* The loop over host_elf_machine[], up to its terminating zero.
RECURSIVE MachineListed(_, _, _)
MachineListed(list, k, machine) ==
  IF list[k] = 0 THEN FALSE
  ELSE IF list[k] = machine THEN TRUE
  ELSE MachineListed(list, k + 1, machine)

\* The entry of is_host_elf, up to the call of open_elf.
IsHostElfEntry ==
  /\ pc = "is_host_elf"
  /\ force_foreign' = MemoForceForeign(force_foreign, env)
  /\ IF force_foreign' > 0 \/ ~qemu
     THEN /\ host_result' = FALSE
          /\ pc' = Head(stack)
          /\ stack' = Tail(stack)
     ELSE /\ pc' = "open_elf"
          /\ stack' = <<"ihe_opened">> \o stack
          /\ UNCHANGED host_result
  /\ UNCHANGED <<retval, status, image, sysVars, callVars, env, qemu, host_fd,
                 openVars, findVars, rlrVars, accVars, axVars>>

\* fd = open_elf(...); if (fd < 0) return false; close(fd); and the machine test.
IsHostElfOpened ==
  /\ pc = "ihe_opened"
  /\ host_fd' = retval
  /\ IF retval < 0
     THEN /\ host_result' = FALSE
          /\ UNCHANGED fds
     ELSE /\ fds' = fds \ {retval}
          /\ host_result' = MachineListed(HOST_ELF_MACHINE, 1, elf_header.machine)
  /\ pc' = Head(stack)
  /\ stack' = Tail(stack)
  /\ UNCHANGED <<retval, status, image, errno, owned, fpos, callVars, env, force_foreign,
                 qemu, openVars, findVars, rlrVars, accVars, axVars>>

(* ------------------------ the top-level caller ------------------------ *)

\* The caller calls open_elf on some path and will own the descriptor.
CallOpenElf ==
  /\ pc = "idle"
  /\ ncalls < MaxCalls
  /\ \E f \in Files : file' = f
  /\ ncalls' = ncalls + 1
  /\ last_call' = "open_elf"
  /\ pc' = "open_elf"
  /\ stack' = <<"opened">>
  /\ UNCHANGED <<retval, status, image, sysVars, hostVars, elf_header, fd,
                 findVars, rlrVars, accVars, axVars>>

\* open_elf has returned to the caller, who owns the descriptor it got.
CallerOpened ==
  /\ pc = "opened"
  /\ owned' = IF retval >= 0 THEN owned \cup {retval} ELSE owned
  /\ pc' = "idle"
  /\ UNCHANGED <<stack, retval, status, image, errno, fds, fpos, callVars, hostVars,
                 openVars, findVars, rlrVars, accVars, axVars>>

\* The caller closes a descriptor it owns.
CallerClose ==
  /\ pc = "idle"
  /\ \E d \in owned :
       /\ owned' = owned \ {d}
       /\ fds' = fds \ {d}
  /\ UNCHANGED <<pc, stack, retval, status, image, errno, fpos, callVars, hostVars,
                 openVars, findVars, rlrVars, accVars, axVars>>

\* The caller calls is_host_elf on some path, for a tracee with or without qemu.
CallIsHostElf ==
  /\ pc = "idle"
  /\ ncalls < MaxCalls
  /\ \E f \in Files : file' = f
  /\ \E q \in BOOLEAN : qemu' = q
  /\ ncalls' = ncalls + 1
  /\ last_call' = "is_host_elf"
  /\ pc' = "is_host_elf"
  /\ stack' = <<"idle">>
  /\ UNCHANGED <<retval, status, image, sysVars, env, force_foreign, host_fd, host_result,
                 elf_header, fd, findVars, rlrVars, accVars, axVars>>

\* The environment changes between two calls (setenv, unsetenv).
ChangeEnv ==
  /\ pc = "idle"
  /\ env' = ~env
  /\ UNCHANGED <<pc, stack, retval, status, image, sysVars, callVars, force_foreign, qemu,
                 host_fd, host_result, openVars, findVars, rlrVars, accVars, axVars>>

(* -------------------------- the parsed image -------------------------- *)

PT_LOAD == 1

PT_DYNAMIC == 2

DT_NULL == 0

DT_STRTAB == 5

DT_RPATH == 15

DT_RUNPATH == 29

\* phnum >= 0xffff: "big PH tables are not yet supported".
PN_XNUM == 65535

\* sizeof(ProgramHeader32), sizeof(ProgramHeader64).
SizeofProgramHeader(header) == IF IS_CLASS32(header) THEN 32 ELSE 56

KNOWN_PHENTSIZE(header, phentsize) == phentsize = SizeofProgramHeader(header)

\* A field of the class's layout: the 32-bit layout holds the low
\* Word32Bits bits, zero-extended; the 64-bit layout holds the whole word.
ClassField(header, v) == IF IS_CLASS32(header) THEN v % Pow2(Word32Bits) ELSE v

\* PROGRAM_FIELD(header, program_header, field) for every field at once.
ProgramFields(header, raw) ==
  [type   |-> raw.type,
   vaddr  |-> ClassField(header, raw.vaddr),
   memsz  |-> ClassField(header, raw.memsz),
   offset |-> ClassField(header, raw.offset),
   filesz |-> ClassField(header, raw.filesz)]

\* DYNAMIC_FIELD(header, dynamic_entry, field) for both fields.
DynamicFields(header, raw) ==
  [tag |-> raw.tag, val |-> ClassField(header, raw.val)]

(* ------------------------------- lseek -------------------------------- *)

\* lseek(fd, o, SEEK_SET) with o converted to off_t: a negative offset is
\* refused with EINVAL, any other becomes the file offset.
LseekFails(o) == ToOff(o) < 0

\* status = (int) lseek(fd, o, SEEK_SET)
LseekStatus(o) == IF LseekFails(o) THEN -1 ELSE ToInt(ToOff(o))

\* The effect of the lseek on errno and on the file offset.
Lseek(o) ==
  IF LseekFails(o)
  THEN errno' = EINVAL /\ fpos' = fpos
  ELSE errno' = errno /\ fpos' = ToOff(o)

(* ------------------------- find_program_header ------------------------ *)

\* start < end && address >= start && address <= end, with end = start + memsz.
SegmentContains_ExclusiveEnd(start, memsz, addr) ==
  LET end == ToWord(start + memsz)
  IN start < end /\ addr >= start /\ addr < end

SegmentContains(start, memsz, addr) ==
  LET end == ToWord(start + memsz)
  IN start < end /\ addr >= start /\ addr <= end

\* The test on the entry just read: the requested type, and then the
\* wildcard or the containment.
HeaderSelected_AnyType(ph, t, addr) ==
  addr = WILDCARD \/ SegmentContains(ph.vaddr, ph.memsz, addr)

HeaderSelected(ph, t, addr) ==
  /\ ph.type = t
  /\ \/ addr = WILDCARD
     \/ SegmentContains(ph.vaddr, ph.memsz, addr)

\* The sanity checks and the lseek to e_phoff.
FphEntry ==
  /\ pc = "find_program_header"
  /\ LET elf_phnum     == image.header.phnum
         elf_phentsize == image.header.phentsize
         elf_phoff     == image.header.phoff
     IN IF elf_phnum >= PN_XNUM
        THEN /\ Return(-ENOTSUP)
             /\ UNCHANGED <<status, errno, fpos, i>>
        ELSE IF ~KNOWN_PHENTSIZE(image.header, elf_phentsize)
        THEN /\ Return(-ENOTSUP)
             /\ UNCHANGED <<status, errno, fpos, i>>
        ELSE /\ Lseek(elf_phoff)
             /\ status' = LseekStatus(elf_phoff)
             /\ IF status' < 0
                THEN /\ Return(-errno')
                     /\ UNCHANGED i
                ELSE /\ i' = 0
                     /\ pc' = "fph_loop"
                     /\ UNCHANGED <<stack, retval>>
  /\ UNCHANGED <<image, fds, owned, callVars, hostVars, openVars, type, address,
                 program_header, rlrVars, accVars, axVars>>

\* One turn of the loop: read the next entry and test it.
FphRead ==
  /\ pc = "fph_loop"
  /\ i < image.header.phnum
  /\ \/ \* read(2) fails
        /\ errno' = EIO
        /\ status' = -1
        /\ Return(-errno')
        /\ UNCHANGED <<fpos, i, program_header>>
     \/ \* the file ends before the entry does
        /\ i >= Len(image.phdrs)
        /\ status' = 0
        /\ Return(-ENOTSUP)
        /\ UNCHANGED <<errno, fpos, i, program_header>>
     \/ \* the entry is read
        /\ i < Len(image.phdrs)
        /\ status' = image.header.phentsize
        /\ fpos' = fpos + image.header.phentsize
        /\ program_header' = ProgramFields(image.header, image.phdrs[i + 1])
        /\ IF HeaderSelected(program_header', type, address)
           THEN /\ Return(1)
                /\ UNCHANGED i
           ELSE /\ i' = i + 1
                /\ UNCHANGED <<pc, stack, retval>>
        /\ UNCHANGED errno
  /\ UNCHANGED <<image, fds, owned, callVars, hostVars, openVars, type, address,
                 rlrVars, accVars, axVars>>

\* The table is exhausted: return 0.
FphNotFound ==
  /\ pc = "fph_loop"
  /\ i >= image.header.phnum
  /\ Return(0)
  /\ UNCHANGED <<status, image, sysVars, callVars, hostVars, openVars, findVars,
                 rlrVars, accVars, axVars>>

(* ------------------------------ add_xpaths ---------------------------- *)

NUL == "NUL"

\* The bytes a file may hold, and the bytes memory talloc_realloc has
\* not written may hold.
FileBytes == {NUL, "a"}

HeapBytes == {NUL, "?"}

\* What the bytes lo..hi of a grown buffer may hold before they are written.
\* No byte behind the first NUL is ever read: those are taken to be NUL.
HeapRuns(lo, hi) ==
  {h \in [lo..hi -> HeapBytes] : \A k \in lo..hi : h[k] = NUL => \A j \in k..hi : h[j] = NUL}

\* strnlen(s, n): the bytes of s before its first NUL, at most n.
RECURSIVE Strnlen(_, _)
Strnlen(s, n) ==
  IF n = 0 \/ s = <<>> \/ Head(s) = NUL THEN 0
  ELSE 1 + Strnlen(Tail(s), n - 1)

\* The C string a buffer holds: its bytes before the first NUL.
CString(buf) == SubSeq(buf, 1, Strnlen(buf, Len(buf)))

\* The "Concatene this list of paths to xpaths" block: strcpy into a new
\* array when *xpaths is NULL, else strcat of ":" and of the paths.
Strcpy(src) == CString(src) \o <<NUL>>

Strcat(dst, src) == (CString(dst) \o CString(src)) \o <<NUL>>

Concatenate_NoSeparator(xpaths, buf) ==
  IF xpaths = NULL THEN Strcpy(buf) ELSE Strcat(xpaths, buf)

Concatenate(xpaths, buf) ==
  IF xpaths = NULL THEN Strcpy(buf)
  ELSE Strcat(Strcat(xpaths, <<":", NUL>>), buf)

\* status = (int) lseek(fd, offset, SEEK_SET); if (status < 0) return -errno;
AxEntry ==
  /\ pc = "add_xpaths"
  /\ Lseek(offset)
  /\ status' = LseekStatus(offset)
  /\ IF status' < 0
     THEN /\ Return(-errno')
          /\ UNCHANGED <<length, size, paths>>
     ELSE /\ length' = 0
          /\ size' = 0
          /\ paths' = <<>>
          /\ pc' = "ax_read"
          /\ UNCHANGED <<stack, retval>>
  /\ UNCHANGED <<image, fds, owned, callVars, hostVars, openVars, findVars, rlrVars,
                 accVars, offset>>

\* One turn of the do/while loop: grow the buffer by a chunk, read a chunk
\* into the grown part, add strnlen of that part to length.
AxRead ==
  /\ pc = "ax_read"
  /\ length < MaxChunks * ChunkSize
  /\ size' = length + ChunkSize
  /\ \/ \* talloc_realloc fails
        /\ Return(-ENOMEM)
        /\ UNCHANGED <<status, errno, fpos, length, paths>>
     \/ \* read(2) fails
        /\ errno' = EIO
        /\ status' = -1
        /\ Return(status')
        /\ UNCHANGED <<fpos, length, paths>>
     \/ \* read(2) returns the bytes the file has left, at most a chunk; the
        \* rest of the grown part keeps what the heap held
        LET left == IF fpos < Len(image.bytes) THEN Len(image.bytes) - fpos ELSE 0
            n    == IF left < ChunkSize THEN left ELSE ChunkSize
        IN \E heap \in HeapRuns(n + 1, ChunkSize) :
             LET chunk == [k \in 1..ChunkSize |->
                             IF k <= n THEN image.bytes[fpos + k] ELSE heap[k]]
             IN /\ status' = n
                /\ fpos' = fpos + n
                /\ paths' = paths \o chunk
                /\ length' = length + Strnlen(chunk, ChunkSize)
                /\ pc' = IF length' = size' THEN "ax_read" ELSE "ax_merge"
                /\ UNCHANGED <<stack, retval, errno>>
  /\ UNCHANGED <<image, fds, owned, callVars, hostVars, openVars, findVars, rlrVars,
                 accVars, offset>>

\* The concatenation to *xpaths, which is *rpaths or *runpaths.
AxMerge ==
  /\ pc = "ax_merge"
  /\ \/ \* talloc_array or talloc_realloc fails
        /\ Return(-ENOMEM)
        /\ UNCHANGED <<rpaths, runpaths>>
     \/ /\ IF scan = "rpath"
           THEN rpaths' = Concatenate(rpaths, paths) /\ UNCHANGED runpaths
           ELSE runpaths' = Concatenate(runpaths, paths) /\ UNCHANGED rpaths
        /\ Return(0)
  /\ UNCHANGED <<status, image, sysVars, callVars, hostVars, openVars, findVars, rlrVars,
                 passed, axVars>>

(* --------------------------- read_ldso_rpaths ------------------------- *)

\* sizeof(DynamicEntry32), sizeof(DynamicEntry64).
SizeofDynamicEntry(header) == IF IS_CLASS32(header) THEN 8 ELSE 16

\* if (status <= 0) return status; after the search of PT_DYNAMIC.
NoDynamicSegment(st) == st <= 0

\* if (strtab_address == (uint64_t) -1) return 0;
NoStringTable_Ignored(addr) == FALSE

NoStringTable(addr) == addr = WILDCARD

\* strtab_offset = offset + (strtab_address - vaddr), stored in an off_t.
StrtabOffset(ph, addr) == ToOff(ToWord(ph.offset + ToWord(addr - ph.vaddr)))

\* if (strtab_offset < 0 || (uint64_t) strtab_offset > UINT64_MAX - value)
OffsetOverflows_Unchecked(so, v) == so < 0

OffsetOverflows(so, v) == so < 0 \/ ToWord(so) > UINT64_MAX - v

\* The tag a FOREACH_DYNAMIC_ENTRY loop looks for.
ScanTag(s) == IF s = "strtab" THEN DT_STRTAB
              ELSE IF s = "rpath" THEN DT_RPATH
              ELSE DT_RUNPATH

\* The number of turns of a FOREACH_DYNAMIC_ENTRY loop.
DynamicCount == sizeof_dynamic_segment \div sizeof_dynamic_entry

\* What dynamic_entry may hold when the file ended before the entry: the
\* object has no initializer.
RawDynamicEntries == [tag : {DT_NULL, DT_STRTAB, DT_RPATH, DT_RUNPATH}, val : {0, 1}]

\* status = find_program_header(..., &dynamic_segment, PT_DYNAMIC, (uint64_t) -1);
RlrEntry ==
  /\ pc = "read_ldso_rpaths"
  /\ strtab_address' = WILDCARD
  /\ type' = PT_DYNAMIC
  /\ address' = WILDCARD
  /\ pc' = "find_program_header"
  /\ stack' = <<"rlr_dynamic">> \o stack
  /\ UNCHANGED <<retval, status, image, sysVars, callVars, hostVars, openVars, i,
                 program_header, offsetof_dynamic_segment, sizeof_dynamic_segment,
                 sizeof_dynamic_entry, strtab_offset, scan, di, dynamic_entry, value,
                 accVars, axVars>>

\* The test of that status, the size of an entry and the alignment test.
RlrDynamic ==
  /\ pc = "rlr_dynamic"
  /\ status' = retval
  /\ IF NoDynamicSegment(status')
     THEN /\ Return(status')
          /\ UNCHANGED <<offsetof_dynamic_segment, sizeof_dynamic_segment,
                         sizeof_dynamic_entry, scan, di>>
     ELSE /\ offsetof_dynamic_segment' = program_header.offset
          /\ sizeof_dynamic_segment' = program_header.filesz
          /\ sizeof_dynamic_entry' = SizeofDynamicEntry(image.header)
          /\ IF sizeof_dynamic_segment' % sizeof_dynamic_entry' # 0
             THEN /\ Return(-ENOEXEC)
                  /\ UNCHANGED <<scan, di>>
             ELSE /\ scan' = "strtab"
                  /\ di' = 0
                  /\ pc' = "foreach"
                  /\ UNCHANGED <<stack, retval>>
  /\ UNCHANGED <<image, sysVars, callVars, hostVars, openVars, findVars,
                 strtab_address, strtab_offset, dynamic_entry, value, accVars, axVars>>

\* One turn of FOREACH_DYNAMIC_ENTRY up to embedded_code: the lseek to the
\* entry, its read and the test of its tag.
ForeachRead ==
  /\ pc = "foreach"
  /\ di < DynamicCount
  /\ LET at == ToWord(offsetof_dynamic_segment + di * sizeof_dynamic_entry)
     IN IF LseekStatus(at) < 0
        THEN /\ Lseek(at)
             /\ status' = LseekStatus(at)
             /\ Return(-errno')
             /\ UNCHANGED <<di, dynamic_entry, value>>
        ELSE \/ \* read(2) fails
                /\ errno' = EIO
                /\ fpos' = ToOff(at)
                /\ status' = -1
                /\ Return(status')
                /\ UNCHANGED <<di, dynamic_entry, value>>
             \/ \* the entry, or what the object held when the file has no such entry
                \E raw \in IF di < Len(image.dyn) THEN {image.dyn[di + 1]}
                           ELSE RawDynamicEntries :
                  /\ status' = IF di < Len(image.dyn) THEN sizeof_dynamic_entry ELSE 0
                  /\ fpos' = ToOff(at) + status'
                  /\ dynamic_entry' = DynamicFields(image.header, raw)
                  /\ IF dynamic_entry'.tag # ScanTag(scan)
                     THEN /\ di' = di + 1
                          /\ UNCHANGED <<pc, value>>
                     ELSE /\ value' = dynamic_entry'.val
                          /\ pc' = "body"
                          /\ UNCHANGED di
                  /\ UNCHANGED <<stack, retval, errno>>
  /\ UNCHANGED <<image, fds, owned, callVars, hostVars, openVars, findVars,
                 offsetof_dynamic_segment, sizeof_dynamic_segment, sizeof_dynamic_entry,
                 strtab_address, strtab_offset, scan, accVars, axVars>>

\* A FOREACH_DYNAMIC_ENTRY loop ran through the table.
ForeachEnd ==
  /\ pc = "foreach"
  /\ di >= DynamicCount
  /\ IF scan = "strtab"
     THEN /\ pc' = "rlr_strtab"
          /\ UNCHANGED <<stack, retval, scan, di>>
     ELSE IF scan = "rpath"
     THEN /\ scan' = "runpath"
          /\ di' = 0
          /\ UNCHANGED <<pc, stack, retval>>
     ELSE /\ Return(0)
          /\ UNCHANGED <<scan, di>>
  /\ UNCHANGED <<status, image, sysVars, callVars, hostVars, openVars, findVars,
                 offsetof_dynamic_segment, sizeof_dynamic_segment, sizeof_dynamic_entry,
                 strtab_address, strtab_offset, dynamic_entry, value, accVars, axVars>>

\* strtab_address = value; break;
BodyStrtab ==
  /\ pc = "body"
  /\ scan = "strtab"
  /\ strtab_address' = value
  /\ pc' = "rlr_strtab"
  /\ UNCHANGED <<stack, retval, status, image, sysVars, callVars, hostVars, openVars,
                 findVars, offsetof_dynamic_segment, sizeof_dynamic_segment,
                 sizeof_dynamic_entry, strtab_offset, scan, di, dynamic_entry, value,
                 accVars, axVars>>

\* The test of strtab_address and the search of the PT_LOAD header holding it.
RlrStrtab ==
  /\ pc = "rlr_strtab"
  /\ IF NoStringTable(strtab_address)
     THEN /\ Return(0)
          /\ UNCHANGED <<type, address>>
     ELSE /\ type' = PT_LOAD
          /\ address' = strtab_address
          /\ pc' = "find_program_header"
          /\ stack' = <<"rlr_load">> \o stack
          /\ UNCHANGED retval
  /\ UNCHANGED <<status, image, sysVars, callVars, hostVars, openVars, i, program_header,
                 rlrVars, accVars, axVars>>

\* if (status < 0) return status; and the computation of strtab_offset.
RlrLoad ==
  /\ pc = "rlr_load"
  /\ status' = retval
  /\ IF status' < 0
     THEN /\ Return(status')
          /\ UNCHANGED <<strtab_offset, scan, di>>
     ELSE /\ strtab_offset' = StrtabOffset(program_header, strtab_address)
          /\ scan' = "rpath"
          /\ di' = 0
          /\ pc' = "foreach"
          /\ UNCHANGED <<stack, retval>>
  /\ UNCHANGED <<image, sysVars, callVars, hostVars, openVars, findVars,
                 offsetof_dynamic_segment, sizeof_dynamic_segment, sizeof_dynamic_entry,
                 strtab_address, dynamic_entry, value, accVars, axVars>>

\* The overflow test and the call of add_xpaths on a DT_RPATH or DT_RUNPATH entry.
BodyXpath ==
  /\ pc = "body"
  /\ scan # "strtab"
  /\ IF OffsetOverflows(strtab_offset, value)
     THEN /\ Return(-ENOEXEC)
          /\ UNCHANGED offset
     ELSE /\ offset' = ToWord(strtab_offset + value)
          /\ pc' = "add_xpaths"
          /\ stack' = <<"xpath_added">> \o stack
          /\ UNCHANGED retval
  /\ UNCHANGED <<status, image, sysVars, callVars, hostVars, openVars, findVars, rlrVars,
                 accVars, length, size, paths>>

\* if (status < 0) return status; and the next turn of the loop.
XpathAdded ==
  /\ pc = "xpath_added"
  /\ status' = retval
  /\ IF status' < 0
     THEN /\ Return(status')
          /\ UNCHANGED di
     ELSE /\ di' = di + 1
          /\ pc' = "foreach"
          /\ UNCHANGED <<stack, retval>>
  /\ UNCHANGED <<image, sysVars, callVars, hostVars, openVars, findVars,
                 offsetof_dynamic_segment, sizeof_dynamic_segment, sizeof_dynamic_entry,
                 strtab_address, strtab_offset, scan, dynamic_entry, value, accVars, axVars>>

(* ------------------------------ the inputs ---------------------------- *)

NoProgramHeader == [type |-> 0, vaddr |-> 0, memsz |-> 0, offset |-> 0, filesz |-> 0]

NoDynamicEntry == [tag |-> DT_NULL, val |-> 0]

NoImage == [header |-> [class |-> ELFCLASS64, phnum |-> 0, phentsize |-> 56, phoff |-> 0],
            phdrs |-> <<>>, dyn |-> <<>>, bytes |-> <<>>]

NoPaths == [rpaths |-> NULL, runpaths |-> NULL]

\* The sequences over S of length at most n.
SeqsUpTo(S, n) == UNION {[1..k -> S] : k \in 0..n}

\* The values of errno a process may enter a function with.
StaleErrnos == {0, EACCES}

\* The ELF headers over a table of n entries: the regular ones, and the ones
\* with one irregular field.
RegularHeaders(n) ==
  {[class |-> c, phnum |-> n, phoff |-> SizeofElfHeader \div 2,
    phentsize |-> SizeofProgramHeader([class |-> c])] : c \in {ELFCLASS32, ELFCLASS64}}

IrregularHeaders(n) ==
  {[class |-> ELFCLASS64, phnum |-> m, phoff |-> SizeofElfHeader \div 2, phentsize |-> 56] :
     m \in {n + 1, PN_XNUM, PN_XNUM + 1}}
  \cup {[class |-> ELFCLASS64, phnum |-> n, phoff |-> SizeofElfHeader \div 2, phentsize |-> 32],
        [class |-> ELFCLASS32, phnum |-> n, phoff |-> SizeofElfHeader \div 2, phentsize |-> 56]}
  \cup {[class |-> ELFCLASS64, phnum |-> n, phoff |-> o, phentsize |-> 56] :
          o \in {Pow2(IntBits - 1), Pow2(WordBits - 1), UINT64_MAX}}

\* The inputs of find_program_header: short tables over a few entries under
\* a regular header, one-entry tables over the boundary values, and a table
\* under every irregular header.
FindRawHeaders ==
  [type : {PT_LOAD, PT_DYNAMIC}, vaddr : {0, 1}, memsz : {0, 2}, offset : {0}, filesz : {0}]

Boundary == {0, 1, 2, 3, UINT32_MAX, UINT32_MAX + 1, UINT64_MAX - 2, UINT64_MAX - 1, UINT64_MAX}

BoundaryRawHeaders ==
  [type : {PT_LOAD, PT_DYNAMIC}, vaddr : Boundary, memsz : Boundary, offset : {0}, filesz : {0}]

FindInputs(maxPh) ==
  UNION {{[image |-> [header |-> h, phdrs |-> t, dyn |-> <<>>, bytes |-> <<>>],
           type |-> ty, address |-> a] :
            h \in RegularHeaders(Len(t)), ty \in {PT_LOAD, PT_DYNAMIC},
            a \in {0, 1, 2, 3, UINT64_MAX - 1, WILDCARD}} :
         t \in SeqsUpTo(FindRawHeaders, maxPh)}
  \cup {[image |-> [header |-> h, phdrs |-> <<r>>, dyn |-> <<>>, bytes |-> <<>>],
         type |-> PT_LOAD, address |-> a] :
          h \in RegularHeaders(1), r \in BoundaryRawHeaders, a \in Boundary}
  \cup {[image |-> [header |-> h, dyn |-> <<>>, bytes |-> <<>>,
                    phdrs |-> <<[type |-> PT_LOAD, vaddr |-> 0, memsz |-> 2,
                                 offset |-> 0, filesz |-> 0]>>],
         type |-> PT_LOAD, address |-> a] :
          h \in IrregularHeaders(1), a \in {0, WILDCARD}}

\* The inputs of read_ldso_rpaths.  The dynamic segment's header claims the
\* size of the dynamic entries the file holds.
DynamicRawHeader(c, d) ==
  LET e == SizeofDynamicEntry([class |-> c])
  IN [type |-> PT_DYNAMIC, vaddr |-> 0, memsz |-> 0, offset |-> 0, filesz |-> Len(d) * e]

\* The dynamic segment's header with one byte or one entry more than the
\* file holds, or with an offset whose seek does not fit an int or is
\* refused.
OddDynamicRawHeaders(c, d) ==
  LET e == SizeofDynamicEntry([class |-> c])
  IN {[type |-> PT_DYNAMIC, vaddr |-> 0, memsz |-> 0, offset |-> 0, filesz |-> f] :
        f \in {Len(d) * e + 1, (Len(d) + 1) * e}}
     \cup {[type |-> PT_DYNAMIC, vaddr |-> 0, memsz |-> 0, offset |-> o, filesz |-> Len(d) * e] :
             o \in {Pow2(IntBits - 1) - e, UINT64_MAX}}

LoadRawHeaders ==
  {[type |-> PT_LOAD, vaddr |-> 0, memsz |-> 2, offset |-> 0, filesz |-> 0],
   [type |-> PT_LOAD, vaddr |-> 1, memsz |-> 2, offset |-> 0, filesz |-> 0],
   [type |-> PT_LOAD, vaddr |-> 0, memsz |-> 0, offset |-> 0, filesz |-> 0]}

\* A PT_LOAD segment at the far end of the file.
FarLoadRawHeader ==
  [type |-> PT_LOAD, vaddr |-> 0, memsz |-> 2, offset |-> UINT64_MAX, filesz |-> 0]

Entry(t, v) == [tag |-> t, val |-> v]

\* Images with any short program header table over a few dynamic sections.
TableDynamics ==
  {<<>>,
   <<Entry(DT_RPATH, 0)>>,
   <<Entry(DT_STRTAB, 0), Entry(DT_RPATH, 0)>>,
   <<Entry(DT_STRTAB, 1), Entry(DT_RPATH, 1)>>,
   <<Entry(DT_STRTAB, 0), Entry(DT_RPATH, UINT64_MAX)>>,
   <<Entry(DT_STRTAB, 0), Entry(DT_RPATH, Pow2(IntBits - 1))>>,
   <<Entry(DT_STRTAB, 3), Entry(DT_RUNPATH, UINT64_MAX - 1)>>,
   <<Entry(DT_STRTAB, WILDCARD), Entry(DT_RPATH, 0)>>,
   <<Entry(DT_NULL, 0), Entry(DT_RUNPATH, 1), Entry(DT_STRTAB, 1)>>}

TableImages(maxPh) ==
  UNION {UNION {{[header |-> h, phdrs |-> t, dyn |-> d, bytes |-> <<"a", "b", NUL>>] :
                   h \in {x \in RegularHeaders(Len(t)) : x.class = c}} :
                t \in SeqsUpTo({DynamicRawHeader(c, d)} \cup LoadRawHeaders, maxPh)
                       \cup {<<r>> : r \in OddDynamicRawHeaders(c, d)}
                       \cup {<<DynamicRawHeader(c, d), FarLoadRawHeader>>}} :
         c \in {ELFCLASS32, ELFCLASS64}, d \in TableDynamics}

\* Images with a regular table, over short dynamic sections that start with
\* their DT_STRTAB entry, and any short run of bytes.
StringRawEntries == {Entry(DT_RPATH, 0), Entry(DT_RPATH, 1)}

StringDynamics(maxDyn) ==
  {<<Entry(DT_STRTAB, 0)>> \o t : t \in SeqsUpTo(StringRawEntries, maxDyn - 1)}
  \cup {<<Entry(DT_STRTAB, 0), Entry(DT_RUNPATH, 0), Entry(DT_RUNPATH, 1)>>,
        <<Entry(DT_STRTAB, 0), Entry(DT_RUNPATH, 1), Entry(DT_RPATH, 0)>>}

StringImages(maxDyn, maxBytes) ==
  {[header |-> [class |-> ELFCLASS64, phnum |-> 2, phoff |-> SizeofElfHeader \div 2,
                phentsize |-> 56],
    phdrs |-> <<[type |-> PT_DYNAMIC, vaddr |-> 0, memsz |-> 0, offset |-> 0,
                 filesz |-> Len(d) * 16],
                [type |-> PT_LOAD, vaddr |-> 0, memsz |-> 2, offset |-> 0, filesz |-> 0]>>,
    dyn |-> d, bytes |-> b] :
     d \in StringDynamics(maxDyn),
     b \in SeqsUpTo(FileBytes, maxBytes)}

RlrInputs(maxPh, maxDyn, maxBytes) ==
  {[image |-> im, passed |-> NoPaths, errno |-> e] :
     im \in TableImages(maxPh), e \in StaleErrnos}
  \cup {[image |-> im, passed |-> [rpaths |-> <<"c", NUL>>, runpaths |-> <<"d", NUL>>],
          errno |-> 0] : im \in TableImages(maxPh)}
  \cup {[image |-> im, passed |-> NoPaths, errno |-> 0] :
          im \in StringImages(maxDyn, maxBytes)}

(* --------------------------- specifications --------------------------- *)

\* The state before any call, for the variables a specification sets itself
\* left out.
Fresh ==
  /\ stack = <<"idle">>
  /\ retval = 0
  /\ status = 0
  /\ fpos = 0
  /\ force_foreign = -1
  /\ qemu = FALSE
  /\ file = [readable |-> FALSE, len |-> 0, header |-> NoHeader]
  /\ elf_header = NoHeader
  /\ fd = -1
  /\ host_fd = -1
  /\ host_result = FALSE
  /\ i = 0
  /\ program_header = NoProgramHeader
  /\ offsetof_dynamic_segment = 0
  /\ sizeof_dynamic_segment = 0
  /\ sizeof_dynamic_entry = 0
  /\ strtab_address = WILDCARD
  /\ strtab_offset = 0
  /\ scan = "strtab"
  /\ di = 0
  /\ dynamic_entry = NoDynamicEntry
  /\ value = 0
  /\ offset = 0
  /\ length = 0
  /\ size = 0
  /\ paths = <<>>

\* A process that calls open_elf and is_host_elf, MaxCalls times in all.
InitOpen ==
  /\ Fresh
  /\ env \in BOOLEAN
  /\ pc = "idle"
  /\ errno = 0
  /\ fds = {}
  /\ owned = {}
  /\ ncalls = 0
  /\ last_call = "none"
  /\ image = NoImage
  /\ type = PT_LOAD
  /\ address = WILDCARD
  /\ rpaths = NULL
  /\ runpaths = NULL
  /\ passed = NoPaths

NextOpen ==
  \/ CallOpenElf
  \/ CallerOpened
  \/ CallerClose
  \/ CallIsHostElf
  \/ ChangeEnv
  \/ OpenElfOpen
  \/ OpenElfRead
  \/ OpenElfEnd
  \/ IsHostElfEntry
  \/ IsHostElfOpened

SpecOpen == InitOpen /\ [][NextOpen]_vars

\* A caller that holds descriptor 3 on an image and calls find_program_header.
InitFind ==
  /\ Fresh
  /\ \E in \in FindInputs(MaxPh) :
       /\ image = in.image
       /\ type = in.type
       /\ address = in.address
  /\ errno \in StaleErrnos
  /\ env = FALSE
  /\ pc = "find_program_header"
  /\ fds = {3}
  /\ owned = {3}
  /\ ncalls = 1
  /\ last_call = "find_program_header"
  /\ rpaths = NULL
  /\ runpaths = NULL
  /\ passed = NoPaths

NextFind ==
  \/ FphEntry
  \/ FphRead
  \/ FphNotFound

SpecFind == InitFind /\ [][NextFind]_vars

\* A caller that holds descriptor 3 on an image and calls read_ldso_rpaths.
InitRpaths ==
  /\ Fresh
  /\ \E in \in RlrInputs(MaxPh, MaxDyn, MaxBytes) :
       /\ image = in.image
       /\ passed = in.passed
       /\ errno = in.errno
  /\ rpaths = passed.rpaths
  /\ runpaths = passed.runpaths
  /\ env = FALSE
  /\ pc = "read_ldso_rpaths"
  /\ fds = {3}
  /\ owned = {3}
  /\ ncalls = 1
  /\ last_call = "read_ldso_rpaths"
  /\ type = PT_LOAD
  /\ address = WILDCARD

NextRpaths ==
  \/ FphEntry
  \/ FphRead
  \/ FphNotFound
  \/ AxEntry
  \/ AxRead
  \/ AxMerge
  \/ RlrEntry
  \/ RlrDynamic
  \/ ForeachRead
  \/ ForeachEnd
  \/ BodyStrtab
  \/ RlrStrtab
  \/ RlrLoad
  \/ BodyXpath
  \/ XpathAdded

SpecRpaths == InitRpaths /\ [][NextRpaths]_vars

(* ------------------------- what the claims use ------------------------ *)

\* The least element of a set of indices, 0 when it is empty.
FirstIndex(S) == IF S = {} THEN 0 ELSE CHOOSE k \in S : \A j \in S : k <= j

\* A segment at vaddr of memsz bytes holds address a: it is not empty, its
\* end does not wrap around the word, and a lies between both ends.
ClaimContains(vaddr, memsz, a) ==
  /\ vaddr < (vaddr + memsz) % WordMod
  /\ vaddr <= a
  /\ a <= vaddr + memsz

\* The k-th entry of the image's program header table, as its class lays it out.
TableEntry(k) == ProgramFields(image.header, image.phdrs[k])

\* An lseek to o succeeds and its result fits an int.
SeekFits(o) == ToOff(o) >= 0 /\ ToOff(o) < Pow2(IntBits - 1)

\* The table is one find_program_header supports, the file holds all of it,
\* and no read of the call failed.
TableReadable ==
  /\ image.header.phnum < PN_XNUM
  /\ image.header.phentsize = (IF image.header.class = ELFCLASS32 THEN 32 ELSE 56)
  /\ image.header.phnum <= Len(image.phdrs)
  /\ SeekFits(image.header.phoff)
  /\ errno # EIO

\* The entries of the table that have the type and hold the address asked for.
Matching(ty, a) ==
  {k \in 1..image.header.phnum :
     /\ TableEntry(k).type = ty
     /\ a = WILDCARD \/ ClaimContains(TableEntry(k).vaddr, TableEntry(k).memsz, a)}

\* The machines of the host list, up to its terminating zero.
HostMachines ==
  LET z == FirstIndex({k \in 1..Len(HOST_ELF_MACHINE) : HOST_ELF_MACHINE[k] = 0})
  IN {HOST_ELF_MACHINE[k] : k \in 1..(z - 1)}

\* The file is an ELF file open_elf accepts.
ValidElf(f) ==
  /\ f.readable
  /\ f.len >= SizeofElfHeader
  /\ f.header.ident = ELFMAG
  /\ f.header.class \in {ELFCLASS32, ELFCLASS64}

(* ------------------------------- C1 ----------------------------------- *)

\* C1: when open_elf returns, to the top-level caller or to is_host_elf, a
\* negative code, no descriptor is open but those the caller owned before
\* (the one open_elf opened is closed); when it returns a value that is not
\* negative, that value is the descriptor it opened, still open, and the
\* only one open beside those the caller owned before.
C1_OpenElfNeverLeaks ==
  pc \in {"opened", "ihe_opened"} =>
    IF retval < 0
    THEN fds = owned /\ fd \notin fds
    ELSE retval = fd /\ fd \in fds /\ fd \notin owned /\ fds = owned \cup {fd}

\* A file that opens and is not an ELF file: open_elf has returned -ENOEXEC
\* and descriptor 3, which it had opened, is closed.
C1_Witness ==
  /\ pc = "opened"
  /\ file.readable
  /\ fd = 3
  /\ retval = -ENOEXEC
  /\ fd \notin fds

(* ------------------------------- C8 ----------------------------------- *)

\* C8: over any sequence of calls of is_host_elf, force_foreign is set only
\* by the first call, from the environment of that call, and never changes
\* afterwards; a call returns true exactly when the flag is 0, tracee->qemu
\* is set, open_elf succeeded on an ELF file and the header's machine is in
\* the host list before its terminating zero, false otherwise; and no
\* descriptor the call opened is open when it has returned.
C8_IsHostElf ==
  /\ [](pc = "idle" /\ last_call = "is_host_elf" =>
          /\ host_result = (/\ force_foreign = 0
                            /\ qemu
                            /\ host_fd >= 0
                            /\ ValidElf(file)
                            /\ file.header.machine \in HostMachines)
          /\ fds = owned)
  /\ [][force_foreign >= 0 => force_foreign' = force_foreign]_vars
  /\ [][force_foreign < 0 /\ force_foreign' >= 0 =>
          pc = "is_host_elf" /\ force_foreign' = (IF env THEN 1 ELSE 0)]_vars

\* The flag was set by an earlier call, the variable has since left the
\* environment, and a call on a genuine host ELF file under qemu has
\* returned false.
C8_Witness ==
  /\ pc = "idle"
  /\ last_call = "is_host_elf"
  /\ force_foreign = 1
  /\ ~env
  /\ qemu
  /\ ValidElf(file)
  /\ file.header.machine \in HostMachines
  /\ ~host_result

(* ------------------------------- C3 ----------------------------------- *)

\* C3: whenever find_program_header has read an entry of the requested type
\* and the address is not the wildcard, it returns 1 at that entry if and
\* only if vaddr < (vaddr + memsz) mod 2^WordBits and vaddr <= address <=
\* vaddr + memsz; so both ends match when the segment is not empty and does
\* not wrap, and an empty or a wrapping segment matches no address.
C3_Containment ==
  [][(/\ pc = "fph_loop"
      /\ fpos' = fpos + image.header.phentsize
      /\ program_header'.type = type
      /\ address # WILDCARD)
     => LET v == program_header'.vaddr
            m == program_header'.memsz
            found == pc' = "idle" /\ retval' = 1
        IN /\ found <=> ClaimContains(v, m, address)
           /\ m = 0 => ~found
           /\ v + m >= WordMod => ~found
           /\ (m > 0 /\ v + m < WordMod /\ address \in {v, v + m}) => found
           /\ ~found => pc' = "fph_loop" /\ i' = i + 1]_vars

\* find_program_header has returned 1 on an address that is the last one
\* of a segment that is not empty.
C3_Witness ==
  /\ pc = "idle"
  /\ last_call = "find_program_header"
  /\ retval = 1
  /\ address # WILDCARD
  /\ program_header.memsz > 0
  /\ address = program_header.vaddr + program_header.memsz

(* ------------------------------- C6 ----------------------------------- *)

\* C6: on a supported table whose reads all complete, find_program_header
\* returns 1 with *program_header the first entry, in table order, that has
\* the requested type and, unless the address is the wildcard, holds the
\* address, and the file offset is right behind that entry (no later entry
\* was read); it returns 0 exactly when no entry of the table is such.
C6_FirstMatch ==
  (pc = "idle" /\ last_call = "find_program_header" /\ TableReadable) =>
    LET k == FirstIndex(Matching(type, address))
    IN IF k = 0
       THEN retval = 0
       ELSE /\ retval = 1
            /\ program_header = TableEntry(k)
            /\ fpos = image.header.phoff + k * image.header.phentsize

\* Both entries of a table hold the address asked for, and the call has
\* returned with the first.
C6_Witness ==
  /\ pc = "idle"
  /\ last_call = "find_program_header"
  /\ TableReadable
  /\ address # WILDCARD
  /\ Matching(type, address) = {1, 2}
  /\ TableEntry(1) # TableEntry(2)
  /\ retval = 1
  /\ program_header = TableEntry(1)

(* ------------------------------- C7 ----------------------------------- *)

\* The first PT_DYNAMIC entry of the table, 0 when it has none.
DynamicIndex == FirstIndex(Matching(PT_DYNAMIC, WILDCARD))

\* The dynamic section is made of whole entries, the file holds them all,
\* every seek to one fits, and none is tagged t.
DynamicSectionWithout(t) ==
  /\ DynamicIndex # 0
  /\ LET d == TableEntry(DynamicIndex)
         e == IF image.header.class = ELFCLASS32 THEN 8 ELSE 16
         n == d.filesz \div e
     IN /\ d.filesz % e = 0
        /\ n <= Len(image.dyn)
        /\ \A k \in 0..(n - 1) : SeekFits((d.offset + k * e) % WordMod)
        /\ \A k \in 1..n : image.dyn[k].tag # t

\* C7: when the table has no PT_DYNAMIC entry, and when the dynamic section
\* has no DT_STRTAB entry, read_ldso_rpaths returns 0 and *rpaths and
\* *runpaths are what the caller passed (the table and the section being
\* read without a failure).
C7_NothingToRead ==
  (/\ pc = "idle"
   /\ last_call = "read_ldso_rpaths"
   /\ TableReadable
   /\ DynamicIndex = 0 \/ DynamicSectionWithout(DT_STRTAB))
  => /\ retval = 0
     /\ rpaths = passed.rpaths
     /\ runpaths = passed.runpaths

\* A dynamic section with a DT_RPATH entry and no DT_STRTAB entry, a caller
\* that passed lists that are not empty, and the call has returned.
C7_Witness ==
  /\ pc = "idle"
  /\ last_call = "read_ldso_rpaths"
  /\ TableReadable
  /\ DynamicSectionWithout(DT_STRTAB)
  /\ \E k \in 1..Len(image.dyn) : image.dyn[k].tag = DT_RPATH
  /\ sizeof_dynamic_segment > 0
  /\ passed.rpaths # NULL
  /\ retval = 0

(* ------------------------------- C2 ----------------------------------- *)

\* C2: when the search of the PT_LOAD header that holds the string table's
\* address returns 0 (not found), read_ldso_rpaths returns -ENOEXEC at once:
\* it computes no strtab_offset and appends nothing to *rpaths or *runpaths.
C2_UnresolvedStringTableFails ==
  [][(pc = "rlr_load" /\ retval = 0)
     => /\ pc' = "idle"
        /\ retval' = -ENOEXEC
        /\ UNCHANGED <<strtab_offset, rpaths, runpaths>>]_vars

(* ------------------------------- C4 ----------------------------------- *)

\* C4: on a DT_RPATH or DT_RUNPATH entry, when strtab_offset + value exceeds
\* the largest uint64_t the function returns -ENOEXEC; add_xpaths is only
\* called with offset the exact sum strtab_offset + value, which fits a
\* uint64_t, and its lseek moves the file offset to that sum or not at all.
C4_ExactOffset ==
  /\ [](pc = "add_xpaths" =>
          /\ strtab_offset >= 0
          /\ offset = strtab_offset + value
          /\ offset <= UINT64_MAX)
  /\ [][(pc = "body" /\ scan # "strtab" /\ strtab_offset + value > UINT64_MAX)
        => pc' = "idle" /\ retval' = -ENOEXEC]_vars
  /\ [][pc = "add_xpaths" => fpos' \in {fpos, strtab_offset + value}]_vars

\* The sum overflows and the call has returned -ENOEXEC.
C4_Witness ==
  /\ pc = "idle"
  /\ last_call = "read_ldso_rpaths"
  /\ scan # "strtab"
  /\ strtab_offset > 0
  /\ strtab_offset + value > UINT64_MAX
  /\ retval = -ENOEXEC

(* ------------------------------- C5 ----------------------------------- *)

\* The list old with the text merged into it: the text alone when old is
\* NULL, else old, ":" and the text.
Merged(old, text) ==
  IF old = NULL THEN text \o <<NUL>>
  ELSE (SubSeq(old, 1, Len(old) - 1) \o <<":">>) \o (text \o <<NUL>>)

\* The file holds a NUL at offset o or behind it.
Terminated(o) == \E k \in (o + 1)..Len(image.bytes) : image.bytes[k] = NUL

\* The text at offset o of the file: its bytes up to the first NUL.
TextAt(o) ==
  LET z == FirstIndex({k \in (o + 1)..Len(image.bytes) : image.bytes[k] = NUL})
  IN SubSeq(image.bytes, o + 1, z - 1)

\* The list acc after the texts of the entries k.. of tag t, in table order.
RECURSIVE JoinFrom(_, _, _)
JoinFrom(acc, k, t) ==
  IF k > DynamicCount THEN acc
  ELSE IF image.dyn[k].tag # t THEN JoinFrom(acc, k + 1, t)
  ELSE JoinFrom(Merged(acc, TextAt(strtab_offset + image.dyn[k].val)), k + 1, t)

\* The three loops ran through a dynamic section the file holds, and every
\* DT_RPATH and DT_RUNPATH entry names a text the file terminates, at an
\* offset whose seek fits.
AllPathsRead ==
  /\ pc = "idle"
  /\ last_call = "read_ldso_rpaths"
  /\ retval = 0
  /\ scan = "runpath"
  /\ di >= DynamicCount
  /\ DynamicCount <= Len(image.dyn)
  /\ \A k \in 1..DynamicCount :
       image.dyn[k].tag \in {DT_RPATH, DT_RUNPATH} =>
         /\ SeekFits(strtab_offset + image.dyn[k].val)
         /\ Terminated(strtab_offset + image.dyn[k].val)

\* C5: the merge of add_xpaths makes the collected text (the first length
\* bytes of the buffer) the whole list when the list is NULL, and else
\* appends ":" and the text to the list, whose earlier content stays; so
\* after read_ldso_rpaths has processed the entries of a tag, whose texts
\* are t1..tk in table order, the list is what the caller passed followed
\* by t1:...:tk, the separator standing between two texts only.
C5_Merge ==
  /\ [](AllPathsRead =>
          /\ rpaths = JoinFrom(passed.rpaths, 1, DT_RPATH)
          /\ runpaths = JoinFrom(passed.runpaths, 1, DT_RUNPATH))
  /\ [][(pc = "ax_merge" /\ pc' = "xpath_added" /\ retval' = 0)
        => LET text == SubSeq(paths, 1, length)
           IN IF scan = "rpath"
              THEN rpaths' = Merged(rpaths, text) /\ runpaths' = runpaths
              ELSE runpaths' = Merged(runpaths, text) /\ rpaths' = rpaths]_vars

\* Two DT_RPATH entries, of texts "aa" and "a", have been processed.
C5_Witness ==
  /\ AllPathsRead
  /\ passed.rpaths = NULL
  /\ rpaths = <<"a", "a", ":", "a", NUL>>

(* ------------------------------- C9 ----------------------------------- *)

\* C9: the loop of add_xpaths reads another chunk only when the last read
\* filled its chunk and the chunk holds no NUL, whatever the grown part of
\* the buffer held; and the text it collects is made of the bytes the file
\* holds from offset on.
C9_ReadLoopStops ==
  /\ (pc = "ax_read" /\ size > 0) =>
       /\ status = ChunkSize
       /\ \A k \in 1..size : paths[k] # NUL
  /\ pc = "ax_merge" =>
       \A k \in 1..length :
         /\ offset + k <= Len(image.bytes)
         /\ paths[k] = image.bytes[offset + k]

(* ------------------------------- C10 ---------------------------------- *)

\* C10: when a read fails in read_ldso_rpaths or in add_xpaths (errno is
\* then EIO), the caller gets -errno, as from find_program_header.
C10_ReadErrorIsErrno ==
  (pc = "idle" /\ last_call = "read_ldso_rpaths" /\ errno = EIO) => retval = -errno

====
